---- MODULE Spec2Model ----
(***************************************************************************)
(* kkmodbus: the Modbus-TCP read/write utility (kkmodbus-readwrite.py) and *)
(* the enumeration utility (kkmodbus-enum.py).                             *)
(*                                                                         *)
(* The model has the frame codec as operators over byte sequences, the     *)
(* up-front validation of a write run, the expansion of the selection into *)
(* work items, the thread pool, the worker and the dispatcher loop of      *)
(* main().  Byte strings are sequences of numbers in 0..255; Python's None *)
(* for an optional number is the empty sequence and a present number v is  *)
(* <<v>>.                                                                  *)
(***************************************************************************)
EXTENDS Integers, Sequences, FiniteSets, TLC

VARIABLES
    args,           \* the parsed command line: tool, write, slave_ids, data_types, value_list
    values,         \* main(): values[data_type], built by the validation of a write run
    pc,             \* main(): position of the dispatcher
    unit_idx,       \* main(): index in slave_ids of the slave being processed
    futures,        \* main(): the futures of the current slave, with each task's state;
                    \* runs (times a thread took the task), fault (the statement that
                    \* raised) and appended (the records it appended) are its history
    work_queue,     \* the executor's queue of submitted, not yet started tasks
    slave_results,  \* main(): the result list shared by the workers of the current slave
    printed,        \* main(): the results of the current slave printed so far
    orphans,        \* connected sockets whose worker returned without closing them
    codec           \* the codec under test: a response and what each decoder makes of it

vars == << args, values, pc, unit_idx, futures, work_queue,
           slave_results, printed, orphans, codec >>

(***************************************************************************)
(* Bounds of the model.                                                    *)
(***************************************************************************)
\* The pool's ceiling: max_workers is 100 in the source, scaled down here.
MaxWorkers == 2
\* The most addresses one run selects, over all data types.
MaxAddrs == 3
\* The most work items one run expands to: slaves times addresses.
MaxTasks == 4
\* The most bytes that follow the function code in a response under test.
MaxTail == 2

Min(a, b) == IF a < b THEN a ELSE b

\* Python's s[a:b] for 0 <= a <= b, on a 1-based sequence.
Slice(s, a, b) == SubSeq(s, a + 1, Min(b, Len(s)))

\* struct.pack('>H', x) for x in range.
U16(x) == << x \div 256, x % 256 >>

\* struct.unpack('>H', b) for a two-byte b.
UnpackU16(b) == b[1] * 256 + b[2]

(***************************************************************************)
(* Frame codec.  A decoder's result is a record: kind "None" (the function *)
(* returned None), "data" (it returned the bytes in data) or "raise" (it   *)
(* raised).                                                                *)
(***************************************************************************)
RNone == [kind |-> "None", data |-> << >>]
RData(d) == [kind |-> "data", data |-> d]
RRaise == [kind |-> "raise", data |-> << >>]

\* Python truthiness of a decoder's return value: None and b'' are falsy.
Truthy(r) == r.kind = "data" /\ Len(r.data) > 0

\* struct.pack of the 8 header bytes and the address: struct.error out of range.
PackFits(trans_id, unit_id, function_code, address) ==
    /\ trans_id \in 0..65535
    /\ unit_id \in 0..255
    /\ function_code \in 0..255
    /\ address \in 0..65535

PackHeader(trans_id, unit_id, function_code, address) ==
    U16(trans_id) \o U16(0) \o U16(6) \o << unit_id, function_code >> \o U16(address)

\* kkmodbus-readwrite.py build_modbus_request; count is always its default 1.
build_modbus_request(trans_id, unit_id, function_code, address, value) ==
    IF value # << >>
    THEN IF function_code \in {5, 6}
         THEN IF PackFits(trans_id, unit_id, function_code, address)
                    /\ value[1] \in 0..65535
              THEN RData(PackHeader(trans_id, unit_id, function_code, address) \o U16(value[1]))
              ELSE RRaise
         ELSE RRaise
    ELSE IF function_code \in {1, 2, 3, 4}
         THEN IF PackFits(trans_id, unit_id, function_code, address)
              THEN RData(PackHeader(trans_id, unit_id, function_code, address) \o U16(1))
              ELSE RRaise
         ELSE RRaise

\* kkmodbus-enum.py build_modbus_request.
enum_build_modbus_request(trans_id, unit_id, function_code, address) ==
    IF PackFits(trans_id, unit_id, function_code, address)
    THEN RData(PackHeader(trans_id, unit_id, function_code, address)
               \o (IF function_code \in {1, 2, 3, 4} THEN U16(1) ELSE << >>))
    ELSE RRaise

\* kkmodbus-readwrite.py parse_modbus_response.  response[8] on an 8-byte
\* response is an IndexError.
parse_modbus_response(response) ==
    IF Len(response) < 8
    THEN RNone
    ELSE LET function_code == response[8] IN
         IF function_code >= 128
         THEN RNone
         ELSE IF function_code \in {1, 2, 3, 4}
              THEN IF Len(response) < 9
                   THEN RRaise
                   ELSE LET byte_count == response[9] IN
                        RData(Slice(response, 9, 9 + byte_count))
              ELSE IF function_code \in {5, 6}
                   THEN RData(Slice(response, 8, 12))
                   ELSE RNone

\* kkmodbus-enum.py parse_modbus_response.
enum_parse_modbus_response(response) ==
    IF Len(response) < 9
    THEN RNone
    ELSE LET function_code == response[8] IN
         IF function_code >= 128
         THEN RNone
         ELSE IF function_code \in {1, 2, 3, 4}
              THEN LET byte_count == response[9] IN
                   RData(Slice(response, 9, 9 + byte_count))
              ELSE RNone

(***************************************************************************)
(* Address mapping and the per-data-type constants of main().              *)
(***************************************************************************)
\* The order in which main() inserts the data types into data_types, which
\* is the order every later iteration over data_types.items() follows.
TypeOrder == << "hr", "coil", "ir", "di" >>
DataTypes == {"hr", "coil", "ir", "di"}

\* Every data type numbered from 0.
base_address_zero(data_type) == 0

base_address(data_type) ==
    CASE data_type = "hr" -> 40001
      [] data_type = "ir" -> 30001
      [] data_type = "coil" -> 1
      [] data_type = "di" -> 10001

function_code_read(data_type) ==
    CASE data_type = "hr" -> 3
      [] data_type = "ir" -> 4
      [] data_type = "coil" -> 1
      [] data_type = "di" -> 2

\* A table in which every data type has a write function code.
function_code_write_any(data_type) == << 6 >>

\* None (the empty sequence) for the data types that cannot be written.
function_code_write(data_type) ==
    CASE data_type = "hr" -> << 6 >>
      [] data_type = "ir" -> << >>
      [] data_type = "coil" -> << 5 >>
      [] data_type = "di" -> << >>

(***************************************************************************)
(* Validation of a write run: main(), "Validate and parse values".         *)
(***************************************************************************)
RECURSIVE SumLen(_, _)
\* The number of addresses of the first n data types of TypeOrder.
SumLen(data_types, n) ==
    IF n = 0 THEN 0 ELSE SumLen(data_types, n - 1) + Len(data_types[TypeOrder[n]])

total_addresses(data_types) == SumLen(data_types, Len(TypeOrder))

TypeIndex(data_type) == CHOOSE n \in 1..Len(TypeOrder) : TypeOrder[n] = data_type

\* value_index set back to 0 at each data type.
ValueOffsetReset(data_types, data_type) == 0

\* value_index when the validation loop reaches the first address of data_type:
\* every address of every earlier data type has consumed one value.
ValueOffset(data_types, data_type) == SumLen(data_types, TypeIndex(data_type) - 1)

\* values[data_type] as the loop builds it from the flat list.
MapValues(data_types, value_list) ==
    [t \in DataTypes |->
        [i \in 1..Len(data_types[t]) |-> value_list[ValueOffset(data_types, t) + i]]]

\* parser.error('Coil values must be 0 or 1')
CoilValueRejected(data_type, val) == data_type = "coil" /\ val \notin {0, 1}

\* The range check of the register values left out.
RegisterNeverRejected(data_type, val) == FALSE

\* parser.error('Register values must be between 0 and 65535')
RegisterValueRejected(data_type, val) == data_type \in {"hr"} /\ ~(0 <= val /\ val <= 65535)

\* TRUE when the validation passes; FALSE is parser.error, which exits.
ValuesAccepted(data_types, value_list) ==
    /\ Len(value_list) = total_addresses(data_types)
    /\ \A t \in DataTypes : \A i \in 1..Len(data_types[t]) :
          LET val == value_list[ValueOffset(data_types, t) + i] IN
          /\ ~CoilValueRejected(t, val)
          /\ ~RegisterValueRejected(t, val)

(***************************************************************************)
(* Expansion of the selection into work items: the body of the loop over  *)
(* data_types.items() in main(), up to executor.submit.                    *)
(***************************************************************************)
\* The user's value handed to the worker as it is.
WireValueRaw(write, vals, data_type, idx) ==
    IF ~write THEN << >> ELSE << vals[data_type][idx] >>

\* The value handed to the worker: None on a read; on a write
\* values[data_type][idx], a coil's mapped to 0xFF00 / 0x0000.
WireValue(write, vals, data_type, idx) ==
    IF ~write THEN << >>
    ELSE LET value == vals[data_type][idx] IN
         IF data_type = "coil"
         THEN << IF value = 1 THEN 65280 ELSE 0 >>
         ELSE << value >>

WorkItem(unit_id, write, vals, data_type, idx, logical_address) ==
    [ unit_id          |-> unit_id,
      function_code    |-> IF write THEN function_code_write(data_type)[1]
                                    ELSE function_code_read(data_type),
      protocol_address |-> logical_address - base_address(data_type),
      logical_address  |-> logical_address,
      data_type        |-> data_type,
      operation        |-> IF write THEN "write" ELSE "read",
      value            |-> WireValue(write, vals, data_type, idx) ]

\* "Cannot write to ..." and continue.
WriteRefused(write, data_type) == write /\ function_code_write(data_type) = << >>

RECURSIVE ItemsFrom(_, _, _, _, _, _)
\* The work items of one data type from index idx on, in order; an address
\* below its base is skipped.
ItemsFrom(unit_id, write, vals, data_type, addresses, idx) ==
    IF idx > Len(addresses) THEN << >>
    ELSE LET logical_address == addresses[idx]
             rest == ItemsFrom(unit_id, write, vals, data_type, addresses, idx + 1)
         IN IF logical_address - base_address(data_type) < 0
            THEN rest
            ELSE << WorkItem(unit_id, write, vals, data_type, idx, logical_address) >> \o rest

ItemsOfType(unit_id, write, data_types, vals, data_type) ==
    IF WriteRefused(write, data_type) THEN << >>
    ELSE ItemsFrom(unit_id, write, vals, data_type, data_types[data_type], 1)

\* Every work item main() submits for one slave, in submission order.
WorkItems(unit_id, write, data_types, vals) ==
    ItemsOfType(unit_id, write, data_types, vals, "hr")
    \o ItemsOfType(unit_id, write, data_types, vals, "coil")
    \o ItemsOfType(unit_id, write, data_types, vals, "ir")
    \o ItemsOfType(unit_id, write, data_types, vals, "di")

(***************************************************************************)
(* The worker: read_or_write_data (read/write tool) and read_data          *)
(* (enumeration tool), from the request on.  io is what the network does:  *)
(* kind "fail" (sendall or recv raises, an error or the timeout) or "recv" *)
(* (recv returns io.response).                                             *)
(***************************************************************************)
\* threading.get_ident() in a thread of the pool: some positive number.
ThreadIdents == { 65534 }

\* An entry that does not carry the slave of its work item.
ResultNoSlave(item, outcome, value) ==
    [ unit_id         |-> 0,
      data_type       |-> item.data_type,
      logical_address |-> item.logical_address,
      outcome         |-> outcome,
      value           |-> value ]

\* One entry of slave_results: what the formatted string carries.
Result(item, outcome, value) ==
    [ unit_id         |-> item.unit_id,
      data_type       |-> item.data_type,
      logical_address |-> item.logical_address,
      outcome         |-> outcome,
      value           |-> value ]

\* The worker without the else branch of "if data".
RecordsOfNoElse(item, data) ==
    IF Truthy(data)
    THEN IF item.operation = "read"
         THEN IF item.data_type \in {"hr", "ir"}
              THEN IF Len(data.data) >= 2
                   THEN << Result(item, "Read", UnpackU16(SubSeq(data.data, 1, 2))) >>
                   ELSE << >>
              ELSE << Result(item, "Read", data.data[1] % 2) >>
         ELSE << Result(item, "Written", 0) >>
    ELSE << >>

\* read_or_write_data, "if data: ... else: ...": the records appended.
RecordsOf(item, data) ==
    IF Truthy(data)
    THEN IF item.operation = "read"
         THEN IF item.data_type \in {"hr", "ir"}
              THEN IF Len(data.data) >= 2
                   THEN << Result(item, "Read", UnpackU16(SubSeq(data.data, 1, 2))) >>
                   ELSE << >>
              ELSE << Result(item, "Read", data.data[1] % 2) >>
         ELSE << Result(item, "Written", 0) >>
    ELSE << Result(item, "Failed", 0) >>

\* read_data, "if data: ...": the records appended; there is no else branch.
enum_RecordsOf(item, data) ==
    IF Truthy(data)
    THEN IF item.data_type \in {"hr", "ir"}
         THEN IF Len(data.data) >= 2
              THEN << Result(item, "Read", UnpackU16(SubSeq(data.data, 1, 2))) >>
              ELSE << >>
         ELSE << Result(item, "Read", data.data[1] % 2) >>
    ELSE << >>

Request(tool, item, ident) ==
    IF tool = "rw"
    THEN build_modbus_request(ident % 65535, item.unit_id, item.function_code,
                              item.protocol_address, item.value)
    ELSE enum_build_modbus_request(ident % 65535, item.unit_id,
                                   item.function_code, item.protocol_address)

Decode(tool, response) ==
    IF tool = "rw" THEN parse_modbus_response(response)
    ELSE enum_parse_modbus_response(response)

\* sock.close() is the statement after the decoding: it runs when nothing
\* before it raised.
CloseReached(fault) == fault = "none"

\* The worker from the request to its return, on a connected socket:
\* fault is the statement that raised ("none" when none did), closed whether
\* sock.close() ran, records the appends.
RunExchange(tool, item, ident, io) ==
    LET request == Request(tool, item, ident)
        data == Decode(tool, io.response)
        fault == IF request.kind = "raise" THEN "encode"
                 ELSE IF io.kind = "fail" THEN "io"
                 ELSE IF data.kind = "raise" THEN "decode"
                 ELSE "none"
    IN [ fault   |-> fault,
         closed  |-> CloseReached(fault),
         records |-> IF fault # "none" THEN << >>
                     ELSE IF tool = "rw" THEN RecordsOf(item, data)
                     ELSE enum_RecordsOf(item, data) ]

\* The worker without its except clause: what raises reaches the future.
UncaughtAll(fault) == fault # "none"

\* "except Exception: pass": no exception leaves the worker, whatever raised.
Uncaught(fault) == FALSE

(***************************************************************************)
(* The inputs of the model.                                                *)
(***************************************************************************)
Header == << 0, 1, 0, 0, 0, 5, 1 >>

\* What recv returns in the runs of the engine.
WireResponses ==
    { << >>,                              \* the peer closed the connection
      Header \o << 3 >>,                  \* a read response cut after the function code
      Header \o << 131, 2 >>,             \* an exception response
      Header \o << 3, 2, 1, 42 >>,        \* a register read: 298
      Header \o << 1, 1, 1 >>,            \* a bit read: 1, a one-byte payload
      Header \o << 3, 0 >>,               \* a read response with byte count 0
      Header \o << 6, 1, 42, 0, 1 >> }    \* the echo of a write

IOChoices ==
    { [kind |-> "fail", response |-> << >>] }
    \cup { [kind |-> "recv", response |-> r] : r \in WireResponses }

HrChoices == { << >>, << 40001 >>, << 40000, 40001 >> }
CoilChoices == { << >>, << 1 >>, << 1, 2 >> }
IrChoices == { << >>, << 30005 >> }
DiChoices == { << >>, << 10001 >> }

Selections ==
    { dt \in [hr : HrChoices, coil : CoilChoices, ir : IrChoices, di : DiChoices] :
        total_addresses(dt) <= MaxAddrs }

SlaveIdChoices == { << 1 >>, << 1, 2 >>, << 256 >> }

ValueSet == { 0, 1, 65536 }

SeqsUpTo(S, n) == UNION { [1..k -> S] : k \in 0..n }

ValueLists == SeqsUpTo(ValueSet, MaxAddrs)

\* The command lines: the enumeration tool only reads and has no values; a
\* read of the read/write tool ignores --value.  The enumeration tool falls
\* back to ten addresses of each type when none is selected, which is
\* beyond MaxAddrs and left out.
ArgsChoices ==
    { a \in [tool : {"rw", "enum"}, write : BOOLEAN, slave_ids : SlaveIdChoices,
             data_types : Selections, value_list : ValueLists] :
        /\ Len(a.slave_ids) * total_addresses(a.data_types) <= MaxTasks
        /\ a.tool = "enum" => ~a.write /\ total_addresses(a.data_types) > 0
        /\ ~a.write => a.value_list = << >> }

(***************************************************************************)
(* The state machine of main() and of the pool.                            *)
(***************************************************************************)
\* max_workers = 100 in the source; the model runs the pool with MaxWorkers.
max_workers == MaxWorkers

NoValues == [t \in DataTypes |-> << >>]

CodecIdle == [phase |-> "idle", response |-> << >>, rw |-> RNone, enum |-> RNone]

Init ==
    /\ args \in ArgsChoices
    /\ values = NoValues
    /\ pc = "validate"
    /\ unit_idx = 0
    /\ futures = << >>
    /\ work_queue = << >>
    /\ slave_results = << >>
    /\ printed = << >>
    /\ orphans = 0
    /\ codec = CodecIdle

\* Every batch addressed to the first slave of the list.
unit_id_first == args.slave_ids[1]

\* "for unit_id in slave_ids".
unit_id == args.slave_ids[unit_idx]

\* main(): parser.error when no data type is selected, then the validation
\* of a write run; the enumeration tool validates nothing.
Validate ==
    /\ pc = "validate"
    /\ LET rejected == /\ args.tool = "rw"
                       /\ \/ total_addresses(args.data_types) = 0
                          \/ args.write /\ ~ValuesAccepted(args.data_types, args.value_list)
       IN /\ pc' = IF rejected THEN "error" ELSE "slave"
          /\ unit_idx' = IF rejected THEN unit_idx ELSE 1
          /\ values' = IF ~rejected /\ args.write
                       THEN MapValues(args.data_types, args.value_list)
                       ELSE values
    /\ UNCHANGED << args, futures, work_queue, slave_results,
                    printed, orphans, codec >>

\* "for unit_id in slave_ids": slave_results = [], futures = [].
BeginSlave ==
    /\ pc = "slave"
    /\ unit_idx <= Len(args.slave_ids)
    /\ pc' = "submit"
    /\ slave_results' = << >>
    /\ futures' = << >>
    /\ printed' = << >>
    /\ UNCHANGED << args, values, unit_idx, work_queue, orphans, codec >>

NewFuture(item) ==
    [ item |-> item, state |-> "pending", exception |-> FALSE, sock |-> "none",
      fault |-> "none", runs |-> 0, appended |-> << >> ]

CurrentItems == WorkItems(unit_id, args.write, args.data_types, values)

\* executor.submit of the next work item of the slave.
Submit ==
    /\ pc = "submit"
    /\ Len(futures) < Len(CurrentItems)
    /\ futures' = Append(futures, NewFuture(CurrentItems[Len(futures) + 1]))
    /\ work_queue' = Append(work_queue, Len(futures) + 1)
    /\ UNCHANGED << args, values, pc, unit_idx, slave_results,
                    printed, orphans, codec >>

\* The loop over data_types.items() ends.
EndSubmit ==
    /\ pc = "submit"
    /\ Len(futures) = Len(CurrentItems)
    /\ pc' = "wait"
    /\ UNCHANGED << args, values, unit_idx, futures, work_queue,
                    slave_results, printed, orphans, codec >>

Running == { i \in 1..Len(futures) : futures[i].state = "running" }

\* A take that leaves the task in the queue.
DequeueKeeps(q) == q

\* The queue after a thread has taken its oldest task.
Dequeue(q) == Tail(q)

\* A thread of the pool takes the oldest queued task: the pool has at most
\* max_workers threads and each runs one task at a time.
Take ==
    /\ work_queue # << >>
    /\ Cardinality(Running) < max_workers
    /\ work_queue' = Dequeue(work_queue)
    /\ futures' = [futures EXCEPT ![Head(work_queue)] =
                      [@ EXCEPT !.state = "running", !.runs = @ + 1]]
    /\ UNCHANGED << args, values, pc, unit_idx, slave_results, printed,
                    orphans, codec >>

\* socket.socket(), settimeout, connect: the connection is made, or connect
\* raises and the worker returns through its except clause, its socket never
\* connected and never closed.
Connect(i) ==
    /\ i \in Running
    /\ futures[i].sock = "none"
    /\ \E ok \in BOOLEAN :
         futures' = [futures EXCEPT ![i] =
            IF ok
            THEN [@ EXCEPT !.sock = "connected"]
            ELSE [@ EXCEPT !.sock = "unclosed", !.fault = "connect",
                           !.state = "finished", !.exception = Uncaught("connect")]]
    /\ UNCHANGED << args, values, pc, unit_idx, work_queue, slave_results,
                    printed, orphans, codec >>

\* An append that stores a copy of the list taken before the other workers'
\* appends.
list_append_stale(results, records) == records

\* results.append(...): one call on the shared list, which the interpreter
\* runs as a whole.
list_append(results, records) == results \o records

\* The rest of the worker on a connected socket, with what the network does
\* given: request, sendall, recv, decoding, close, append.  A worker that
\* returns before sock.close() leaves a connected socket behind.
ExchangeWith(i, io, ident) ==
    LET r == RunExchange(args.tool, futures[i].item, ident, io) IN
    /\ futures' = [futures EXCEPT ![i] =
          [@ EXCEPT !.sock = IF r.closed THEN "closed" ELSE "unclosed",
                    !.fault = r.fault,
                    !.appended = r.records,
                    !.state = "finished", !.exception = Uncaught(r.fault)]]
    /\ slave_results' = list_append(slave_results, r.records)
    /\ orphans' = IF r.closed THEN orphans ELSE orphans + 1

\* The rest of the worker, whatever the network does.
Exchange(i) ==
    /\ i \in Running
    /\ futures[i].sock = "connected"
    /\ \E io \in IOChoices, ident \in ThreadIdents : ExchangeWith(i, io, ident)
    /\ UNCHANGED << args, values, pc, unit_idx, work_queue, printed, codec >>

\* A result() that never returns.
FutureNeverDone(f) == FALSE

\* A result() that does not wait for the task.
FutureDoneNoWait(f) == TRUE

\* future.result() returns once the future is done.
FutureDone(f) == f.state = "finished"

\* "for future in futures: future.result()": result() blocks until its
\* future is done and a done future stays done, so the loop ends when every
\* future is done.  result() re-raises what the task raised, which ends main()
\* once the with block has waited for the pool.
AwaitResults ==
    /\ pc = "wait"
    /\ \A i \in 1..Len(futures) : FutureDone(futures[i])
    /\ pc' = IF \E i \in 1..Len(futures) : futures[i].exception
             THEN "crashed" ELSE "print"
    /\ UNCHANGED << args, values, unit_idx, futures, work_queue, slave_results,
                    printed, orphans, codec >>

\* "for result in slave_results: print(result)".
PrintResult ==
    /\ pc = "print"
    /\ Len(printed) < Len(slave_results)
    /\ printed' = Append(printed, slave_results[Len(printed) + 1])
    /\ UNCHANGED << args, values, pc, unit_idx, futures, work_queue,
                    slave_results, orphans, codec >>

EndPrint ==
    /\ pc = "print"
    /\ Len(printed) >= Len(slave_results)
    /\ pc' = "slave"
    /\ unit_idx' = unit_idx + 1
    /\ UNCHANGED << args, values, futures, work_queue, slave_results,
                    printed, orphans, codec >>

\* The executor's with block ends after the last slave; print("\nDone.").
Finish ==
    /\ pc = "slave"
    /\ unit_idx > Len(args.slave_ids)
    /\ pc' = "done"
    /\ UNCHANGED << args, values, unit_idx, futures, work_queue,
                    slave_results, printed, orphans, codec >>

\* The garbage collector finalizes a connected socket that a returned worker
\* left unclosed.  The code does not ask for it and the language does not say
\* when it happens.
Finalize ==
    /\ orphans > 0
    /\ orphans' = orphans - 1
    /\ UNCHANGED << args, values, pc, unit_idx, futures, work_queue,
                    slave_results, printed, codec >>

Next ==
    \/ Validate
    \/ BeginSlave
    \/ Submit
    \/ EndSubmit
    \/ Take
    \/ \E i \in 1..MaxAddrs : Connect(i)
    \/ \E i \in 1..MaxAddrs : Exchange(i)
    \/ AwaitResults
    \/ PrintResult
    \/ EndPrint
    \/ Finish
    \/ Finalize

Spec == Init /\ [][Next]_vars

\* The steps of the main thread.
MainStep ==
    \/ Validate
    \/ BeginSlave
    \/ Submit
    \/ EndSubmit
    \/ AwaitResults
    \/ PrintResult
    \/ EndPrint
    \/ Finish

\* The steps of the pool's threads.  connect, sendall and recv are made on a
\* socket with settimeout(2): each returns or raises, so a worker's step is
\* always possible and is taken.
PoolStep ==
    \/ Take
    \/ \E i \in 1..MaxAddrs : Connect(i)
    \/ \E i \in 1..MaxAddrs : Exchange(i)

\* The main thread and the pool's threads are scheduled; nothing is assumed
\* of the garbage collector.
SpecLive == Init /\ [][Next]_vars /\ WF_vars(MainStep) /\ WF_vars(PoolStep)

(***************************************************************************)
(* The decoders alone, on every response of a bounded set: up to the 7     *)
(* header bytes, or the header, a function code and up to MaxTail bytes.   *)
(***************************************************************************)
FunctionCodes == { 0, 1, 2, 3, 4, 5, 6, 7, 127, 128, 131, 255 }
TailBytes == { 0, 1, 2, 255 }

CodecResponses ==
    { SubSeq(Header, 1, n) : n \in 0..Len(Header) }
    \cup { Header \o << fc >> \o tail : fc \in FunctionCodes, tail \in SeqsUpTo(TailBytes, MaxTail) }

CodecInit ==
    /\ args = [tool |-> "rw", write |-> FALSE, slave_ids |-> << 1 >>,
               data_types |-> [hr |-> << >>, coil |-> << >>, ir |-> << >>, di |-> << >>],
               value_list |-> << >>]
    /\ values = NoValues
    /\ pc = "codec"
    /\ unit_idx = 0
    /\ futures = << >>
    /\ work_queue = << >>
    /\ slave_results = << >>
    /\ printed = << >>
    /\ orphans = 0
    /\ codec \in { [phase |-> "in", response |-> r, rw |-> RNone, enum |-> RNone] :
                     r \in CodecResponses }

\* Both tools' parse_modbus_response applied to the response.
DecodeResponse ==
    /\ codec.phase = "in"
    /\ codec' = [codec EXCEPT !.phase = "out",
                              !.rw = parse_modbus_response(codec.response),
                              !.enum = enum_parse_modbus_response(codec.response)]
    /\ UNCHANGED << args, values, pc, unit_idx, futures, work_queue, slave_results,
                    printed, orphans >>

SpecCodec == CodecInit /\ [][DecodeResponse]_vars

(***************************************************************************)
(* One worker alone, on a connected socket, with every response of a       *)
(* bounded set: a run of one slave and one address whose only work item    *)
(* has been submitted, taken by a thread and connected.                    *)
(***************************************************************************)
WorkerResponses == CodecResponses \cup WireResponses

\* values as the validation leaves it.
ValuesOf(a) == IF a.write THEN MapValues(a.data_types, a.value_list) ELSE NoValues

ItemsOfRun(a) == WorkItems(a.slave_ids[1], a.write, a.data_types, ValuesOf(a))

\* The runs of one work item that pass the validation.
WorkerArgs ==
    { a \in ArgsChoices :
        /\ Len(a.slave_ids) = 1
        /\ total_addresses(a.data_types) = 1
        /\ a.write => ValuesAccepted(a.data_types, a.value_list)
        /\ Len(ItemsOfRun(a)) = 1 }

WorkerInit ==
    /\ args \in WorkerArgs
    /\ values = ValuesOf(args)
    /\ pc = "wait"
    /\ unit_idx = 1
    /\ futures = << [NewFuture(ItemsOfRun(args)[1]) EXCEPT
                        !.state = "running", !.runs = 1, !.sock = "connected"] >>
    /\ work_queue = << >>
    /\ slave_results = << >>
    /\ printed = << >>
    /\ orphans = 0
    /\ codec \in { [phase |-> "in", response |-> r, rw |-> RNone, enum |-> RNone] :
                     r \in WorkerResponses }

\* The worker of the run's tool, from the request on, when recv returns the
\* response.
Receive ==
    /\ codec.phase = "in"
    /\ 1 \in Running
    /\ futures[1].sock = "connected"
    /\ \E ident \in ThreadIdents :
          ExchangeWith(1, [kind |-> "recv", response |-> codec.response], ident)
    /\ codec' = [codec EXCEPT !.phase = "out",
                              !.rw = parse_modbus_response(codec.response),
                              !.enum = enum_parse_modbus_response(codec.response)]
    /\ UNCHANGED << args, values, pc, unit_idx, work_queue, printed >>

SpecWorker == WorkerInit /\ [][Receive]_vars

(***************************************************************************)
(* Properties.                                                             *)
(***************************************************************************)
Finished(i) == futures[i].state = "finished"

AllFinished == work_queue = << >> /\ \A i \in 1..Len(futures) : Finished(i)

HasRecord(rec) == \E k \in 1..Len(slave_results) : slave_results[k] = rec

TransportFaults == { "connect", "io" }

\* C1: in the read/write engine, once a slave's batch has completed, every
\* work item whose connect, send or receive failed or timed out has a Failed
\* record for its slave id, data type and logical address in the slave's
\* result list.
C1_TransportFailureRecorded ==
    (args.tool = "rw" /\ pc = "print") =>
        \A i \in 1..Len(futures) :
            futures[i].fault \in TransportFaults =>
                HasRecord(Result(futures[i].item, "Failed", 0))

\* C2: every worker that has returned has closed the socket it opened,
\* whatever the path it returned by.
C2_SocketClosedOnReturn ==
    \A i \in 1..Len(futures) :
        (Finished(i) /\ futures[i].sock # "none") => futures[i].sock = "closed"

\* C3: no result of a slave is printed before every work item submitted for
\* the slave has completed: while the results are printed, and once any has
\* been, every work item of the slave is submitted and finished and none is
\* queued, so what is printed is a prefix of a list no worker appends to.
C3_ReportAfterBarrier ==
    /\ (pc = "print" \/ printed # << >>) => AllFinished
    /\ pc = "print" => Len(futures) = Len(CurrentItems)
    /\ Len(printed) <= Len(slave_results)
    /\ \A k \in 1..Len(printed) : printed[k] = slave_results[k]

C3_Witness ==
    /\ pc = "print"
    /\ Len(printed) >= 1
    /\ Len(futures) >= 2
    /\ \E i \in 1..Len(futures) : futures[i].fault # "none"

\* C4: the slaves are processed in the given order, one batch at a time:
\* every submitted, queued or running work item and every record belongs to
\* the slave being processed, and main() moves to the next slave only when
\* every work item of the current one has finished.
C4_BatchBarrier ==
    /\ pc \in {"submit", "wait", "print"} =>
          /\ unit_idx \in 1..Len(args.slave_ids)
          /\ \A i \in 1..Len(futures) :
                futures[i].item.unit_id = args.slave_ids[unit_idx]
          /\ \A k \in 1..Len(slave_results) :
                slave_results[k].unit_id = args.slave_ids[unit_idx]
    /\ pc \in {"slave", "done"} => AllFinished
    /\ \A k \in 1..Len(work_queue) : work_queue[k] \in 1..Len(futures)

C4_Witness ==
    /\ unit_idx = 2
    /\ pc = "submit"
    /\ Len(futures) = 2
    /\ futures[1].state = "running"
    /\ args.slave_ids[2] # args.slave_ids[1]

\* C5: every work item submitted for a slave is taken by a worker exactly
\* once, also when there are more of them than the pool has workers, and
\* when the barrier is passed each of the slave's work items has been
\* submitted, taken once and finished.
C5_ExactlyOnce ==
    /\ \A i \in 1..Len(futures) :
          /\ futures[i].runs <= 1
          /\ futures[i].state # "pending" => futures[i].runs = 1
    /\ pc = "print" =>
          /\ Len(futures) = Len(CurrentItems)
          /\ \A i \in 1..Len(futures) :
                /\ futures[i].item = CurrentItems[i]
                /\ futures[i].runs = 1
                /\ Finished(i)

C5_Witness ==
    /\ pc = "print"
    /\ Len(futures) > max_workers
    /\ \A i \in 1..Len(futures) : futures[i].runs = 1 /\ futures[i].fault = "none"

\* The connections that are open: those of the running workers and those a
\* returned worker left unclosed.
OpenConnections ==
    Cardinality({ i \in 1..Len(futures) : futures[i].sock = "connected" }) + orphans

\* C6: at every instant at most max_workers connections are open, also after
\* workers have ended through a failure.
C6_OpenAtMostCeiling == OpenConnections <= max_workers

RECURSIVE TotalAppended(_)
TotalAppended(n) == IF n = 0 THEN 0 ELSE TotalAppended(n - 1) + Len(futures[n].appended)

\* C7: a failure inside a worker stays inside it: no future carries an
\* exception and main() is never ended by one; the result list holds exactly
\* what the workers appended, each record that of its own work item; when the
\* barrier is passed every work item of the batch has run; and the run ends
\* only after the last slave.
C7_FailureContained ==
    /\ pc # "crashed"
    /\ \A i \in 1..Len(futures) :
          /\ ~futures[i].exception
          /\ \A k \in 1..Len(futures[i].appended) :
                /\ HasRecord(futures[i].appended[k])
                /\ futures[i].appended[k].unit_id = futures[i].item.unit_id
                /\ futures[i].appended[k].data_type = futures[i].item.data_type
                /\ futures[i].appended[k].logical_address = futures[i].item.logical_address
    /\ Len(slave_results) = TotalAppended(Len(futures))
    /\ pc = "print" =>
          /\ Len(futures) = Len(CurrentItems)
          /\ \A i \in 1..Len(futures) : Finished(i) /\ futures[i].runs = 1
    /\ pc = "done" => unit_idx = Len(args.slave_ids) + 1

C7_Witness ==
    /\ pc = "print"
    /\ unit_idx = 2
    /\ orphans > 0
    /\ \E i, j \in 1..Len(futures) :
          /\ futures[i].fault # "none"
          /\ futures[j].fault = "none"
          /\ \E k \in 1..Len(slave_results) :
                /\ slave_results[k].outcome = "Read"
                /\ futures[j].appended = << slave_results[k] >>

\* The selected addresses in the order the values are consumed: data type by
\* data type, then address by address.
TypeSelection(data_type) ==
    [i \in 1..Len(args.data_types[data_type]) |->
        [data_type |-> data_type, logical_address |-> args.data_types[data_type][i]]]

FlatSelection ==
    TypeSelection("hr") \o TypeSelection("coil") \o TypeSelection("ir") \o TypeSelection("di")

\* A write run whose values the validation has to refuse.
BadWriteRun ==
    /\ args.tool = "rw"
    /\ args.write
    /\ \/ Len(args.value_list) # Len(FlatSelection)
       \/ \E k \in 1..Len(FlatSelection) :
             \/ FlatSelection[k].data_type = "coil" /\ args.value_list[k] \notin {0, 1}
             \/ FlatSelection[k].data_type = "hr" /\ args.value_list[k] \notin 0..65535

\* C8: a write run with a wrong number of values, a coil value outside {0,1}
\* or a holding-register value outside 0..65535 ends in the validation: no
\* work item is ever submitted and no connection is ever opened.
C8_BadWriteAborts ==
    BadWriteRun =>
        /\ pc \in {"validate", "error"}
        /\ futures = << >>
        /\ work_queue = << >>
        /\ slave_results = << >>
        /\ orphans = 0

C8_Witness ==
    /\ BadWriteRun
    /\ pc = "error"
    /\ Len(args.value_list) = Len(FlatSelection)
    /\ \A k \in 1..Len(FlatSelection) :
          FlatSelection[k].data_type = "coil" => args.value_list[k] \in {0, 1}

PositionOf(data_type, logical_address) ==
    CHOOSE k \in 1..Len(FlatSelection) :
        FlatSelection[k] = [data_type |-> data_type, logical_address |-> logical_address]

AfterCoilMapping(data_type, v) ==
    IF data_type = "coil" THEN (IF v = 1 THEN 65280 ELSE 0) ELSE v

\* C9: in a write run the work item of the k-th selected address carries the
\* k-th value of the flat list (a coil's after the mapping), and so do the
\* value bytes of its request, also when an earlier address was skipped.
C9_ValueAlignment ==
    args.write =>
        \A i \in 1..Len(futures) :
            LET item == futures[i].item
                expected == AfterCoilMapping(item.data_type,
                               args.value_list[PositionOf(item.data_type, item.logical_address)])
            IN /\ item.value = << expected >>
               /\ \A ident \in ThreadIdents :
                     LET request == Request(args.tool, item, ident) IN
                     request.kind = "data" => SubSeq(request.data, 11, 12) = U16(expected)

C9_Witness ==
    /\ args.write
    /\ args.data_types.hr = << 40000, 40001 >>
    /\ Len(args.value_list) >= 2
    /\ args.value_list[1] # args.value_list[2]
    /\ \E i \in 1..Len(futures) :
          /\ futures[i].item.logical_address = 40001
          /\ futures[i].item.unit_id = 1
          /\ futures[i].sock = "connected"

\* C10: both decoders return None, without raising, for every response
\* shorter than 8 bytes and for every response shorter than 9 bytes whose
\* function code is a read (1 to 4).
C10_ShortResponseNoData ==
    ( /\ codec.phase = "out"
      /\ \/ Len(codec.response) < 8
         \/ Len(codec.response) < 9 /\ codec.response[8] \in 1..4 )
    => codec.rw = RNone /\ codec.enum = RNone

\* The worker of the one-item run has returned and its request was sent, so
\* codec.response is what it received.
Replied == codec.phase = "out" /\ Len(futures) = 1 /\ futures[1].fault # "encode"

FailedRecord(item) ==
    [ unit_id |-> item.unit_id, data_type |-> item.data_type,
      logical_address |-> item.logical_address, outcome |-> "Failed", value |-> 0 ]

\* C11: in the read/write tool, a work item whose response has at least 8
\* bytes and a function code of 0x80 or more gets exactly one record, Failed,
\* whatever bytes follow the function code: no Read and no Written record.
C11_ExceptionReplyFailed ==
    ( /\ args.tool = "rw"
      /\ Replied
      /\ Len(codec.response) >= 8
      /\ codec.response[8] >= 128 )
    => slave_results = << FailedRecord(futures[1].item) >>

C11_Witness ==
    /\ args.tool = "rw"
    /\ args.write
    /\ Replied
    /\ codec.response = Header \o << 131, 2, 255 >>
    /\ slave_results = << FailedRecord(futures[1].item) >>
    /\ futures[1].sock = "closed"

\* The addresses of a writable data type that a write run has to process for
\* each slave: those not below the base of the type.
WritableSelection ==
    { [data_type |-> "hr", logical_address |-> a] :
         a \in { args.data_types.hr[k] : k \in 1..Len(args.data_types.hr) } \cap 40001..200000 }
    \cup { [data_type |-> "coil", logical_address |-> a] :
         a \in { args.data_types.coil[k] : k \in 1..Len(args.data_types.coil) } \cap 1..200000 }

\* C12: in a write run no work item is submitted and no record is produced
\* for an input register or a discrete input; every work item is a write with
\* function code 5 (coil) or 6 (holding register) and so is the function code
\* byte of its request.  The refusal does not end the run: the run stops in an
\* error only for its values, and past the submission of each slave, the
\* later ones included, every writable address selected has its work item.
\* (A run with no data type selected at all is the other error.)
C12_WriteOnlyWritable ==
    args.write =>
        /\ \A i \in 1..Len(futures) :
              LET item == futures[i].item IN
              /\ item.data_type \in {"hr", "coil"}
              /\ item.operation = "write"
              /\ item.function_code = (IF item.data_type = "coil" THEN 5 ELSE 6)
              /\ \A ident \in ThreadIdents :
                    LET request == Request(args.tool, item, ident) IN
                    request.kind = "data" => request.data[8] \in {5, 6}
        /\ \A k \in 1..Len(slave_results) : slave_results[k].data_type \in {"hr", "coil"}
        /\ pc = "error" => (BadWriteRun \/ FlatSelection = << >>)
        /\ pc # "crashed"
        /\ pc \in {"wait", "print"} =>
              \A w \in WritableSelection : \E i \in 1..Len(futures) :
                  /\ futures[i].item.data_type = w.data_type
                  /\ futures[i].item.logical_address = w.logical_address
                  /\ futures[i].item.unit_id = args.slave_ids[unit_idx]
        /\ pc = "done" => unit_idx = Len(args.slave_ids) + 1

C12_Witness ==
    /\ args.write
    /\ args.data_types.ir # << >>
    /\ args.data_types.hr # << >>
    /\ unit_idx = 2
    /\ pc = "print"
    /\ Len(futures) = 1
    /\ \E k \in 1..Len(printed) :
          printed[k].outcome = "Written" /\ printed[k].unit_id = args.slave_ids[2]

\* The payload of a read response: the bytes that follow the byte count, as
\* many as it announces and the response holds.
ReadPayload(response) ==
    IF Len(response) < 9 THEN << >>
    ELSE SubSeq(response, 10, Min(Len(response), 9 + response[9]))

\* C13: in the read/write tool, a read of a holding or an input register
\* whose response is a read response (function code 1 to 4) with a payload of
\* fewer than 2 bytes gets a Failed record.
C13_ShortPayloadFailed ==
    ( /\ args.tool = "rw"
      /\ Replied
      /\ futures[1].item.operation = "read"
      /\ futures[1].item.data_type \in {"hr", "ir"}
      /\ Len(codec.response) >= 8
      /\ codec.response[8] \in 1..4
      /\ Len(ReadPayload(codec.response)) < 2 )
    => slave_results = << FailedRecord(futures[1].item) >>

\* The appends of the batch: worker i's k-th append.
Appends ==
    UNION { { << i, k >> : k \in 1..Len(futures[i].appended) } : i \in 1..Len(futures) }

\* How many entries of the result list are rec, and how many appends were of rec.
EntriesOf(rec) == Cardinality({ k \in 1..Len(slave_results) : slave_results[k] = rec })
AppendsOf(rec) == Cardinality({ p \in Appends : futures[p[1]].appended[p[2]] = rec })

\* C14: the shared result list of a slave holds exactly the records its
\* workers appended, one entry for each append, whatever the order in which
\* the workers ran: no append is lost, none is doubled, no other entry appears,
\* and once the barrier is passed no worker is left to append.
C14_NoLostAppend ==
    /\ Len(slave_results) = Cardinality(Appends)
    /\ \A k \in 1..Len(slave_results) :
          EntriesOf(slave_results[k]) = AppendsOf(slave_results[k])
    /\ \A p \in Appends :
          EntriesOf(futures[p[1]].appended[p[2]]) = AppendsOf(futures[p[1]].appended[p[2]])
    /\ pc = "print" => AllFinished

\* Two workers of a batch that ran at the same time and appended in the
\* order opposite to their submission.
C14_Witness ==
    /\ pc = "print"
    /\ Len(futures) >= 2
    /\ Len(slave_results) >= 2
    /\ futures[1].appended = << slave_results[2] >>
    /\ futures[2].appended = << slave_results[1] >>
    /\ slave_results[1] # slave_results[2]

\* C15: a run that has passed the validation ends: the batch of the slave it
\* is at is submitted, run and reported, and the run reaches "Done" after the
\* last slave, whatever fails inside the workers.
C15_RunTerminates ==
    /\ (pc = "slave") ~> (pc = "done" /\ unit_idx = Len(args.slave_ids) + 1 /\ AllFinished)
    /\ (pc = "submit") ~> (pc = "print" /\ AllFinished /\ Len(futures) = Len(CurrentItems))
    /\ \A n \in 1..2 :
          (pc = "slave" /\ unit_idx = 1 /\ Len(args.slave_ids) >= n)
              ~> (pc = "print" /\ unit_idx = n)

\* The end of a run of two slaves in which a worker failed.
C15_Witness ==
    /\ pc = "done"
    /\ unit_idx = 3
    /\ Len(futures) >= 2
    /\ \E i \in 1..Len(futures) : futures[i].fault \in {"connect", "io", "decode"}

\* C16: every work item handed to a worker has fields the encoder can pack,
\* a protocol address in 0..65535, a unit id in 0..255 and, on a write, a
\* value in 0..65535, the transaction id being in 0..65535 too; so no worker
\* that has connected fails in build_modbus_request.
C16_RequestFieldsInRange ==
    \A i \in 1..Len(futures) :
        LET item == futures[i].item IN
        /\ item.protocol_address \in 0..65535
        /\ item.unit_id \in 0..255
        /\ item.operation = "write" => item.value[1] \in 0..65535
        /\ \A ident \in ThreadIdents : (ident % 65535) \in 0..65535
        /\ futures[i].fault # "encode"

\* The base and the function codes of each data type, as the protocol
\* convention has them.
BaseOf == [hr |-> 40001, ir |-> 30001, coil |-> 1, di |-> 10001]
ReadCodeOf == [hr |-> 3, ir |-> 4, coil |-> 1, di |-> 2]
WriteCodeOf == [hr |-> 6, coil |-> 5]

\* C17: every submitted work item has a protocol address of its logical
\* address minus the base of its data type (40001, 30001, 1, 10001), not
\* negative, and the function code of its data type and operation (read 3, 4,
\* 1, 2; write 6, 5), which are also the function code and address bytes of
\* its request; a selected address below its base has no work item and no
\* record.
C17_AddressAndFunctionCode ==
    /\ \A i \in 1..Len(futures) :
          LET item == futures[i].item IN
          /\ item.protocol_address = item.logical_address - BaseOf[item.data_type]
          /\ item.protocol_address >= 0
          /\ item.function_code = IF item.operation = "read"
                                   THEN ReadCodeOf[item.data_type]
                                   ELSE WriteCodeOf[item.data_type]
          /\ \A ident \in ThreadIdents :
                LET request == Request(args.tool, item, ident) IN
                request.kind = "data" =>
                    /\ request.data[8] = item.function_code
                    /\ SubSeq(request.data, 9, 10) =
                          U16(item.logical_address - BaseOf[item.data_type])
    /\ \A k \in 1..Len(slave_results) :
          slave_results[k].logical_address >= BaseOf[slave_results[k].data_type]

\* A batch whose selection has an address below the base: it is not submitted.
C17_Witness ==
    /\ pc = "print"
    /\ args.data_types.hr = << 40000, 40001 >>
    /\ args.data_types.coil = << 1 >>
    /\ Len(futures) = 2
    /\ Len(printed) = 2
    /\ futures[1].item.logical_address = 40001
    /\ futures[1].item.protocol_address = 0
    /\ futures[2].item.data_type = "coil"

\* The value the user gave for the k-th selected coil: the values of the
\* holding registers come first in the list.
CoilUserValue(k) == args.value_list[Len(args.data_types.hr) + k]

CoilIndex(logical_address) ==
    CHOOSE k \in 1..Len(args.data_types.coil) : args.data_types.coil[k] = logical_address

\* C18: every coil write (function code 5) is for a user value of 0 or 1 and
\* carries 0xFF00 for 1 and 0x0000 for 0, in the work item and in the value
\* bytes of the request; a run with any other coil value is stopped by the
\* validation and submits nothing.
C18_CoilWireValue ==
    args.write =>
        /\ \A i \in 1..Len(futures) :
              LET item == futures[i].item
                  user == CoilUserValue(CoilIndex(item.logical_address))
              IN item.function_code = 5 =>
                    /\ user \in {0, 1}
                    /\ item.value = IF user = 1 THEN << 65280 >> ELSE << 0 >>
                    /\ \A ident \in ThreadIdents :
                          LET request == Request(args.tool, item, ident) IN
                          request.kind = "data" =>
                              SubSeq(request.data, 11, 12) =
                                  IF user = 1 THEN << 255, 0 >> ELSE << 0, 0 >>
        /\ (pc \notin {"validate", "error"} \/ futures # << >>) =>
              \A k \in 1..Len(args.data_types.coil) : CoilUserValue(k) \in {0, 1}

C18_Witness ==
    /\ args.write
    /\ args.data_types.coil = << 1, 2 >>
    /\ pc = "wait"
    /\ Len(futures) = 2
    /\ futures[1].item.value = << 65280 >>
    /\ futures[2].item.value = << 0 >>
    /\ futures[1].appended # << >>
    /\ futures[1].appended[1].outcome = "Written"

\* The work items of the batch that a record names.
ItemsNamedBy(rec) ==
    { i \in 1..Len(futures) :
        /\ futures[i].item.unit_id = rec.unit_id
        /\ futures[i].item.data_type = rec.data_type
        /\ futures[i].item.logical_address = rec.logical_address }

\* The entries of the result list that name the same work item as a record.
EntriesLike(rec) ==
    { l \in 1..Len(slave_results) :
        /\ slave_results[l].unit_id = rec.unit_id
        /\ slave_results[l].data_type = rec.data_type
        /\ slave_results[l].logical_address = rec.logical_address }

\* C19: in both tools a work item contributes at most one record to the
\* result list of its slave, and while the batch runs and is reported every
\* record of the list, and every record printed, carries the id of the slave
\* being processed and the data type and logical address of a work item
\* submitted in the batch, with no more entries for it than work items it
\* names.
C19_RecordsAttributed ==
    /\ \A i \in 1..Len(futures) : Len(futures[i].appended) <= 1
    /\ (pc \in {"submit", "wait", "print"} /\ slave_results # << >>) =>
          /\ \A k \in 1..Len(slave_results) :
                LET rec == slave_results[k] IN
                /\ rec.unit_id = args.slave_ids[unit_idx]
                /\ ItemsNamedBy(rec) # { }
                /\ Cardinality(EntriesLike(rec)) <= Cardinality(ItemsNamedBy(rec))
          /\ \A k \in 1..Len(printed) :
                /\ printed[k].unit_id = args.slave_ids[unit_idx]
                /\ ItemsNamedBy(printed[k]) # { }

\* The report of the second slave of an enumeration in which one of two work
\* items gave a record and the other none.
C19_Witness ==
    /\ args.tool = "enum"
    /\ pc = "print"
    /\ unit_idx = 2
    /\ Len(futures) = 2
    /\ Len(slave_results) = 1
    /\ printed = slave_results
    /\ futures[1].fault = "none"
    /\ futures[2].fault = "none"

====
